---- MODULE Spec2Model ----
(***************************************************************************)
(* Model of gluetun's routing address utilities (IPIsPrivate,              *)
(* ipMatchesFamily, Routing.assignedIP) and of the OpenVPN settings        *)
(* (mergeWith, setDefaults, validate).                                     *)
(*                                                                         *)
(* Three specifications share the variables:                               *)
(*   SpecAddr     the pure address predicates applied to sample addresses  *)
(*   SpecRouting  assignedIP against a host interface                      *)
(*   SpecSettings the OpenVPN settings life cycle                          *)
(***************************************************************************)
EXTENDS Integers, Sequences, FiniteSets, TLC

VARIABLES
    addrIn,      \* SpecAddr: the netip.Addr under test
    familyIn,    \* SpecAddr: the family argument
    privOut,     \* SpecAddr: <<>> or <<result of IPIsPrivate(addrIn)>>
    matchOut,    \* SpecAddr: <<>> or <<result of ipMatchesFamily(addrIn, familyIn)>>
    host,        \* SpecRouting: the host's network interfaces
    ret,         \* SpecRouting: <<>> or <<record of the last assignedIP call>>
    vpnProvider, \* SpecSettings: the VPN provider name
    o,           \* SpecSettings: the OpenVPN settings value
    phase,       \* SpecSettings: "off", "reading", "defaulted" or "validated"
    verr         \* SpecSettings: <<>> or <<result of the last validate call>>

vars == <<addrIn, familyIn, privOut, matchOut, host, ret,
          vpnProvider, o, phase, verr>>

addrVars == <<addrIn, familyIn, privOut, matchOut>>
routingVars == <<host, ret>>
settingsVars == <<vpnProvider, o, phase, verr>>

(***************************************************************************)
(* Bounds of the model.                                                    *)
(***************************************************************************)
\* last byte of the sample addresses ranges over 0..MaxLastByte
MaxLastByte == 1
\* the interface has at most MaxAddrs addresses
MaxAddrs == 3
\* the settings sources set at most MaxMerged fields between them
MaxMerged == 3

(***************************************************************************)
(* Bit operations on naturals.                                             *)
(***************************************************************************)
RECURSIVE BitAnd(_, _)
BitAnd(x, y) ==
    IF x = 0 \/ y = 0 THEN 0
    ELSE (IF x % 2 = 1 /\ y % 2 = 1 THEN 1 ELSE 0) + 2 * BitAnd(x \div 2, y \div 2)

(***************************************************************************)
(* net/netip.Addr: z is the zone marker (z0 the zero Addr, z4 an IPv4      *)
(* address, z6 an IPv6 address), b the 16 bytes of the 128-bit value.  An  *)
(* IPv4 address is stored as ::ffff:a.b.c.d with z = z4.                   *)
(***************************************************************************)
Zeros(n) == [i \in 1..n |-> 0]

ZeroAddr == [z |-> "z0", b |-> Zeros(16)]

AddrFrom4(b4) == [z |-> "z4", b |-> Zeros(10) \o <<255, 255>> \o b4]

AddrFrom16(b16) == [z |-> "z6", b |-> b16]

Is4(ip) == ip.z = "z4"

Is6(ip) == ip.z # "z0" /\ ip.z # "z4"

Is4In6(ip) ==
    /\ Is6(ip)
    /\ \A i \in 1..10 : ip.b[i] = 0
    /\ ip.b[11] = 255 /\ ip.b[12] = 255

Unmap(ip) == IF Is4In6(ip) THEN [ip EXCEPT !.z = "z4"] ELSE ip

\* ip.v4(i), ip.v6(i), ip.v6u16(i) with Go's 0-based index i
v4(ip, i) == ip.b[13 + i]
v6(ip, i) == ip.b[1 + i]
v6u16(ip, i) == ip.b[1 + i] * 256 + ip.b[2 + i]

IsPrivateAddr(ip) ==
    LET u == Unmap(ip) IN
    IF Is4(u)
    THEN \/ v4(u, 0) = 10
         \/ (v4(u, 0) = 172 /\ BitAnd(v4(u, 1), 240) = 16)
         \/ (v4(u, 0) = 192 /\ v4(u, 1) = 168)
    ELSE IF Is6(u) THEN BitAnd(v6(u, 0), 254) = 252
    ELSE FALSE

IsLoopback(ip) ==
    LET u == Unmap(ip) IN
    IF Is4(u) THEN v4(u, 0) = 127
    ELSE IF Is6(u) THEN (\A i \in 1..15 : u.b[i] = 0) /\ u.b[16] = 1
    ELSE FALSE

IsLinkLocalUnicast(ip) ==
    LET u == Unmap(ip) IN
    IF Is4(u) THEN v4(u, 0) = 169 /\ v4(u, 1) = 254
    ELSE IF Is6(u) THEN BitAnd(v6u16(u, 0), 65472) = 65152
    ELSE FALSE

IsLinkLocalMulticast(ip) ==
    LET u == Unmap(ip) IN
    IF Is4(u) THEN v4(u, 0) = 224 /\ v4(u, 1) = 0 /\ v4(u, 2) = 0
    ELSE IF Is6(u) THEN BitAnd(v6u16(u, 0), 65295) = 65282
    ELSE FALSE

\* mutant: the link-local multicast case is forgotten
IPIsPrivate_NoMulticast(ip) ==
    IsPrivateAddr(ip) \/ IsLoopback(ip) \/ IsLinkLocalUnicast(ip)

IPIsPrivate(ip) ==
    IsPrivateAddr(ip) \/ IsLoopback(ip) \/
    IsLinkLocalUnicast(ip) \/ IsLinkLocalMulticast(ip)

\* netlink.FAMILY_V4 (AF_INET) and netlink.FAMILY_V6 (AF_INET6)
FAMILY_V4 == 2
FAMILY_V6 == 10

\* the family arguments tried: the two families and 0, which is neither
Families == {0, FAMILY_V4, FAMILY_V6}

ipMatchesFamily(ip, family) ==
    (family = FAMILY_V6 /\ Is6(ip)) \/
    (family = FAMILY_V4 /\ (Is4(ip) \/ Is4In6(ip)))

(***************************************************************************)
(* Sample addresses: the leading bytes sit on and around every range       *)
(* boundary the predicates test.                                           *)
(***************************************************************************)
LastBytes == 0..MaxLastByte

V4Byte0 == {0, 8, 10, 11, 127, 128, 169, 172, 192, 224, 225}
V4Byte1 == {0, 15, 16, 31, 32, 168, 254}
V4Byte2 == {0, 1}

SampleV4Bytes ==
    {<<b0, b1, b2, b3>> : b0 \in V4Byte0, b1 \in V4Byte1, b2 \in V4Byte2, b3 \in LastBytes}

V6Byte0 == {0, 32, 251, 252, 253, 254, 255}
V6Byte1 == {0, 1, 2, 18, 127, 128, 191, 192, 242}

SampleV6Bytes ==
    {<<b0, b1>> \o Zeros(13) \o <<b15>> : b0 \in V6Byte0, b1 \in V6Byte1, b15 \in LastBytes}

Mapped16(b4) == Zeros(10) \o <<255, 255>> \o b4

SampleAddrs ==
    {ZeroAddr}
    \cup {AddrFrom4(b4) : b4 \in SampleV4Bytes}
    \cup {AddrFrom16(Mapped16(b4)) : b4 \in SampleV4Bytes}
    \cup {AddrFrom16(b16) : b16 \in SampleV6Bytes}

(***************************************************************************)
(* SpecAddr: the predicates applied to one sample address.                 *)
(***************************************************************************)
IdleRouting == host = <<>> /\ ret = <<>>

IdleSettings ==
    vpnProvider = "" /\ o = <<>> /\ phase = "off" /\ verr = <<>>

InitAddr ==
    /\ addrIn \in SampleAddrs
    /\ familyIn \in Families
    /\ privOut = <<>>
    /\ matchOut = <<>>
    /\ IdleRouting
    /\ IdleSettings

CallIPIsPrivate ==
    /\ privOut' = <<IPIsPrivate(addrIn)>>
    /\ UNCHANGED <<addrIn, familyIn, matchOut, routingVars, settingsVars>>

CallIpMatchesFamily ==
    /\ matchOut' = <<ipMatchesFamily(addrIn, familyIn)>>
    /\ UNCHANGED <<addrIn, familyIn, privOut, routingVars, settingsVars>>

NextAddr == CallIPIsPrivate \/ CallIpMatchesFamily

SpecAddr == InitAddr /\ [][NextAddr]_vars

(***************************************************************************)
(* Errors: an error is the chain of what it wraps, outermost first; nil is *)
(* the empty chain.  Errorf(ctx, e) is fmt.Errorf("ctx: %w", e) and        *)
(* ErrorsIs is errors.Is.                                                  *)
(***************************************************************************)
NilErr == <<>>

Errorf(ctx, e) == <<ctx>> \o e

ErrorsIs(err, target) ==
    \E i \in 1..Len(err) : SubSeq(err, i, Len(err)) = target

errInterfaceIPNotFound == <<"IP address not found for interface">>

\* what net.InterfaceByName and net.Interface.Addrs fail with
errNoSuchInterface == <<"no such network interface">>
errAddrsFailed == <<"route ip+net: address listing failed">>

(***************************************************************************)
(* The host: the interface tun0 exists, with a list of net.Addr values and *)
(* an address listing that works or fails; tun1 does not exist.  A net.Addr*)
(* is an *net.IPNet or an *net.IPAddr holding a net.IP of 4 or 16 bytes,   *)
(* or a value of another kind.                                             *)
(***************************************************************************)
InterfaceNames == {"tun0", "tun1"}

IPv4A == <<10, 8, 0, 2>>
IPv4B == <<192, 168, 1, 5>>
IPv6C == <<253, 0>> \o Zeros(13) \o <<1>>
IPv6D == <<32, 1>> \o Zeros(13) \o <<7>>

SampleNetIPs == {IPv4A, Mapped16(IPv4A), Mapped16(IPv4B), IPv6C, IPv6D}

SampleNetAddrs ==
    {[kind |-> k, ip |-> b] : k \in {"IPNet", "IPAddr"}, b \in SampleNetIPs}
    \cup {[kind |-> "UnixAddr", ip |-> <<>>]}

AddrLists == UNION {[1..n -> SampleNetAddrs] : n \in 0..MaxAddrs}

Hosts ==
    {[n \in {"tun0"} |-> [addrs |-> l, addrsFail |-> f]] :
        l \in AddrLists, f \in BOOLEAN}

\* netip.AddrFromSlice: the form of the slice is kept, a 16-byte slice
\* holding ::ffff:a.b.c.d becomes an IPv4-mapped IPv6 Addr
netIPToNetipAddress(b) ==
    IF Len(b) = 4 THEN AddrFrom4(b)
    ELSE IF Len(b) = 16 THEN AddrFrom16(b)
    ELSE ZeroAddr

\* net.InterfaceByName
InterfaceByName(h, interfaceName) ==
    IF interfaceName \in DOMAIN h
    THEN [iface |-> <<h[interfaceName]>>, err |-> NilErr]
    ELSE [iface |-> <<>>, err |-> errNoSuchInterface]

\* iface.Addrs()
Addrs(iface) ==
    IF iface.addrsFail
    THEN [addresses |-> <<>>, err |-> errAddrsFailed]
    ELSE [addresses |-> iface.addrs, err |-> NilErr]

\* mutant: the address is returned as the interface reports it
matched_NoUnmap(ip, i) ==
    [ip |-> ip, err |-> NilErr, examined |-> i]

\* line 52: return ip.Unmap(), nil
matched(ip, i) ==
    [ip |-> Unmap(ip), err |-> NilErr, examined |-> i]

\* mutant: the no-match return gives back a nil error
notMatched_NilErr(ip, n) ==
    [ip |-> ip, err |-> NilErr, examined |-> n]

\* lines 54-55: the return after the loop; ip is the named result, which
\* holds the last address the loop converted
notMatched(ip, n) ==
    [ip |-> ip, err |-> Errorf("interface in addresses", errInterfaceIPNotFound),
     examined |-> n]

\* mutant: the loop keeps the last match instead of returning at the first
RECURSIVE addressLoop_LastMatch(_, _, _, _, _)
addressLoop_LastMatch(addresses, family, i, ip, best) ==
    IF i > Len(addresses)
    THEN IF best = <<>> THEN notMatched(ip, Len(addresses)) ELSE best[1]
    ELSE LET address == addresses[i] IN
         IF address.kind \notin {"IPAddr", "IPNet"}
         THEN addressLoop_LastMatch(addresses, family, i + 1, ip, best)
         ELSE LET value == netIPToNetipAddress(address.ip) IN
              IF ~ipMatchesFamily(value, family)
              THEN addressLoop_LastMatch(addresses, family, i + 1, value, best)
              ELSE addressLoop_LastMatch(addresses, family, i + 1, value,
                                         <<matched(value, i)>>)

\* lines 35-55: the loop over the addresses from index i on, ip the current
\* value of the named result
RECURSIVE addressLoop(_, _, _, _)
addressLoop(addresses, family, i, ip) ==
    IF i > Len(addresses)
    THEN notMatched(ip, Len(addresses))
    ELSE LET address == addresses[i] IN
         IF address.kind \notin {"IPAddr", "IPNet"}
         THEN addressLoop(addresses, family, i + 1, ip)
         ELSE LET value == netIPToNetipAddress(address.ip) IN
              IF ~ipMatchesFamily(value, family)
              THEN addressLoop(addresses, family, i + 1, value)
              ELSE matched(value, i)

\* mutant: the loop is entered through the variant that keeps the last match
findAddress_LastMatch(addresses, family) ==
    addressLoop_LastMatch(addresses, family, 1, ZeroAddr, <<>>)

findAddress(addresses, family) == addressLoop(addresses, family, 1, ZeroAddr)

\* mutant: a failed lookup is ignored and reported as a missing address
assignedIP_LookupIgnored(h, interfaceName, family) ==
    LET found == InterfaceByName(h, interfaceName) IN
    IF found.err # NilErr
    THEN [ip |-> ZeroAddr, err |-> Errorf("interface in addresses", errInterfaceIPNotFound),
          lookups |-> 1, listings |-> 1, examined |-> 0]
    ELSE LET listed == Addrs(found.iface[1]) IN
         IF listed.err # NilErr
         THEN [ip |-> ZeroAddr, err |-> Errorf("listing interface addresses", listed.err),
               lookups |-> 1, listings |-> 1, examined |-> 0]
         ELSE LET r == findAddress(listed.addresses, family) IN
              [ip |-> r.ip, err |-> r.err, lookups |-> 1, listings |-> 1,
               examined |-> r.examined]

\* Routing.assignedIP: the result (ip, err) and what the call did: the number
\* of interface lookups, of address listings and of addresses examined
assignedIP(h, interfaceName, family) ==
    LET found == InterfaceByName(h, interfaceName) IN
    IF found.err # NilErr
    THEN [ip |-> ZeroAddr, err |-> Errorf("network interface not found", found.err),
          lookups |-> 1, listings |-> 0, examined |-> 0]
    ELSE LET listed == Addrs(found.iface[1]) IN
         IF listed.err # NilErr
         THEN [ip |-> ZeroAddr, err |-> Errorf("listing interface addresses", listed.err),
               lookups |-> 1, listings |-> 1, examined |-> 0]
         ELSE LET r == findAddress(listed.addresses, family) IN
              [ip |-> r.ip, err |-> r.err, lookups |-> 1, listings |-> 1,
               examined |-> r.examined]

(***************************************************************************)
(* SpecRouting: assignedIP called on a host.                               *)
(***************************************************************************)
IdleAddr == addrIn = ZeroAddr /\ familyIn = 0 /\ privOut = <<>> /\ matchOut = <<>>

InitRouting ==
    /\ host \in Hosts
    /\ ret = <<>>
    /\ IdleAddr
    /\ IdleSettings

CallAssignedIP(interfaceName, family) ==
    /\ ret' = <<[name |-> interfaceName, family |-> family]
                @@ assignedIP(host, interfaceName, family)>>
    /\ UNCHANGED <<host, addrVars, settingsVars>>

NextRouting ==
    \E interfaceName \in InterfaceNames, family \in Families :
        CallAssignedIP(interfaceName, family)

SpecRouting == InitRouting /\ [][NextRouting]_vars

(***************************************************************************)
(* OpenVPN settings.  A pointer field is <<>> (nil) or <<v>>.  The strings *)
(* the code looks into (User, Cert, Key, EncryptedKey, Interface) are      *)
(* sequences of characters; the others are compared whole.                 *)
(***************************************************************************)
Lower == {"a", "b", "c", "d", "e", "f", "g", "h", "i", "j", "k", "l", "m",
          "n", "o", "p", "q", "r", "s", "t", "u", "v", "w", "x", "y", "z"}
Upper == {"A", "B", "C", "D", "E", "F", "G", "H", "I", "J", "K", "L", "M",
          "N", "O", "P", "Q", "R", "S", "T", "U", "V", "W", "X", "Y", "Z"}
Digit == {"0", "1", "2", "3", "4", "5", "6", "7", "8", "9"}
AlNum == Lower \cup Upper \cup Digit

\* providers.Custom and the other provider names validate and setDefaults test
Custom == "custom"
Airvpn == "airvpn"
Cyberghost == "cyberghost"
Ivpn == "ivpn"
Mullvad == "mullvad"
PrivateInternetAccess == "private internet access"
VPNSecure == "vpnsecure"
VPNUnlimited == "vpn unlimited"
Wevpn == "wevpn"

\* a provider none of the tests names stands for all the others
Providers == {Custom, Airvpn, Cyberghost, Ivpn, Mullvad, PrivateInternetAccess,
              VPNSecure, VPNUnlimited, Wevpn, "nordvpn"}

Openvpn24 == "2.4"
Openvpn25 == "2.5"

\* presets.Strong
presetsStrong == "strong"

ErrOpenVPNVersionIsNotValid == <<"ErrOpenVPNVersionIsNotValid">>
ErrOpenVPNUserIsEmpty == <<"ErrOpenVPNUserIsEmpty">>
ErrOpenVPNPasswordIsEmpty == <<"ErrOpenVPNPasswordIsEmpty">>
ErrFilepathMissing == <<"ErrFilepathMissing">>
ErrMissingValue == <<"ErrMissingValue">>
ErrOpenVPNKeyPassphraseIsEmpty == <<"ErrOpenVPNKeyPassphraseIsEmpty">>
ErrOpenVPNMSSFixIsTooHigh == <<"ErrOpenVPNMSSFixIsTooHigh">>
ErrOpenVPNInterfaceNotValid == <<"ErrOpenVPNInterfaceNotValid">>
ErrOpenVPNVerbosityIsOutOfBounds == <<"ErrOpenVPNVerbosityIsOutOfBounds">>

\* what helpers.FileExists, extract.Data and base64 decoding fail with
errFileMissing == <<"file does not exist">>
errExtract == <<"extraction failed">>
CorruptInputError == <<"illegal base64 data">>

\* the zero value of the struct
ZeroOpenVPN ==
    [Version |-> "", User |-> <<>>, Password |-> <<>>, ConfFile |-> <<>>,
     Auth |-> <<>>, Cert |-> <<>>, Key |-> <<>>, EncryptedKey |-> <<>>,
     KeyPassphrase |-> <<>>, PIAEncPreset |-> <<>>, MSSFix |-> <<>>,
     Interface |-> <<>>, ProcessUser |-> "", Verbosity |-> <<>>]

PointerFields == {"User", "Password", "ConfFile", "Auth", "Cert", "Key",
                  "EncryptedKey", "KeyPassphrase", "PIAEncPreset", "MSSFix",
                  "Verbosity"}

\* Interface and ProcessUser and Version are strings: unset is empty
IsUnset(s, f) ==
    IF f \in PointerFields THEN s[f] = <<>>
    ELSE IF f = "Interface" THEN s[f] = <<>>
    ELSE s[f] = ""

\* helpers.MergeWithString, helpers.MergeWithPointer: the existing value when
\* it is set, the other one otherwise
MergeWithString(existing, other) == IF existing # "" THEN existing ELSE other
MergeWithChars(existing, other) == IF existing # <<>> THEN existing ELSE other
MergeWithPointer(existing, other) == IF existing # <<>> THEN existing ELSE other

mergeWith(s, other) ==
    [Version |-> MergeWithString(s.Version, other.Version),
     User |-> MergeWithPointer(s.User, other.User),
     Password |-> MergeWithPointer(s.Password, other.Password),
     ConfFile |-> MergeWithPointer(s.ConfFile, other.ConfFile),
     Auth |-> MergeWithPointer(s.Auth, other.Auth),
     Cert |-> MergeWithPointer(s.Cert, other.Cert),
     Key |-> MergeWithPointer(s.Key, other.Key),
     EncryptedKey |-> MergeWithPointer(s.EncryptedKey, other.EncryptedKey),
     KeyPassphrase |-> MergeWithPointer(s.KeyPassphrase, other.KeyPassphrase),
     PIAEncPreset |-> MergeWithPointer(s.PIAEncPreset, other.PIAEncPreset),
     MSSFix |-> MergeWithPointer(s.MSSFix, other.MSSFix),
     Interface |-> MergeWithChars(s.Interface, other.Interface),
     ProcessUser |-> MergeWithString(s.ProcessUser, other.ProcessUser),
     Verbosity |-> MergeWithPointer(s.Verbosity, other.Verbosity)]

\* helpers.DefaultString, helpers.DefaultPointer: the existing value when it
\* is set, the default (a pointer to it) otherwise
DefaultString(existing, defaultValue) ==
    IF existing # "" THEN existing ELSE defaultValue
DefaultChars(existing, defaultValue) ==
    IF existing # <<>> THEN existing ELSE defaultValue
DefaultPointer(existing, defaultValue) ==
    IF existing # <<>> THEN existing ELSE <<defaultValue>>

\* mutant: the password default of Mullvad is given to every provider
setDefaults_PasswordM(s, provider) ==
    [Version |-> DefaultString(s.Version, Openvpn25),
     User |-> DefaultPointer(s.User, <<>>),
     Password |-> DefaultPointer(s.Password, "m"),
     ConfFile |-> DefaultPointer(s.ConfFile, ""),
     Auth |-> DefaultPointer(s.Auth, ""),
     Cert |-> DefaultPointer(s.Cert, <<>>),
     Key |-> DefaultPointer(s.Key, <<>>),
     EncryptedKey |-> DefaultPointer(s.EncryptedKey, <<>>),
     KeyPassphrase |-> DefaultPointer(s.KeyPassphrase, ""),
     PIAEncPreset |-> DefaultPointer(s.PIAEncPreset,
                         IF provider = PrivateInternetAccess THEN presetsStrong ELSE ""),
     MSSFix |-> DefaultPointer(s.MSSFix, 0),
     Interface |-> DefaultChars(s.Interface, <<"t", "u", "n", "0">>),
     ProcessUser |-> DefaultString(s.ProcessUser, "root"),
     Verbosity |-> DefaultPointer(s.Verbosity, 1)]

setDefaults(s, provider) ==
    [Version |-> DefaultString(s.Version, Openvpn25),
     User |-> DefaultPointer(s.User, <<>>),
     Password |-> IF provider = Mullvad
                  THEN DefaultPointer(s.Password, "m")
                  ELSE DefaultPointer(s.Password, ""),
     ConfFile |-> DefaultPointer(s.ConfFile, ""),
     Auth |-> DefaultPointer(s.Auth, ""),
     Cert |-> DefaultPointer(s.Cert, <<>>),
     Key |-> DefaultPointer(s.Key, <<>>),
     EncryptedKey |-> DefaultPointer(s.EncryptedKey, <<>>),
     KeyPassphrase |-> DefaultPointer(s.KeyPassphrase, ""),
     PIAEncPreset |-> DefaultPointer(s.PIAEncPreset,
                         IF provider = PrivateInternetAccess THEN presetsStrong ELSE ""),
     MSSFix |-> DefaultPointer(s.MSSFix, 0),
     Interface |-> DefaultChars(s.Interface, <<"t", "u", "n", "0">>),
     ProcessUser |-> DefaultString(s.ProcessUser, "root"),
     Verbosity |-> DefaultPointer(s.Verbosity, 1)]

\* ^(i|ivpn)\-[a-zA-Z0-9]{4}\-[a-zA-Z0-9]{4}\-[a-zA-Z0-9]{4}$
ivpnAccountID(str) ==
    \E prefix \in {<<"i">>, <<"i", "v", "p", "n">>} :
        LET n == Len(prefix) IN
        /\ Len(str) = n + 15
        /\ SubSeq(str, 1, n) = prefix
        /\ \A g \in 0..2 :
            /\ str[n + 5 * g + 1] = "-"
            /\ \A k \in 2..5 : str[n + 5 * g + k] \in AlNum

\* ^[a-zA-Z0-9_]+$
regexpInterfaceName(str) ==
    /\ Len(str) >= 1
    /\ \A i \in 1..Len(str) : str[i] \in AlNum \cup {"_"}

\* base64.StdEncoding.DecodeString succeeds: quanta of four characters of the
\* alphabet, the last one padded with one or two "="
base64Valid(str) ==
    LET n == Len(str)
        alphabet == AlNum \cup {"+", "/"}
        pad == IF n >= 2 /\ str[n] = "=" /\ str[n - 1] = "=" THEN 2
               ELSE IF n >= 1 /\ str[n] = "=" THEN 1 ELSE 0
    IN /\ n % 4 = 0
       /\ \A i \in 1..(n - pad) : str[i] \in alphabet

base64Decode(str) == IF base64Valid(str) THEN NilErr ELSE CorruptInputError

\* the files of the host: one that holds an OpenVPN configuration, one that
\* does not parse, and a path that does not exist
ExistingFiles == {"/ok.ovpn", "/bad.ovpn"}
ExtractableFiles == {"/ok.ovpn"}

validateOpenVPNConfigFilepath(isCustom, confFile) ==
    IF ~isCustom THEN NilErr
    ELSE IF confFile = "" THEN Errorf("", ErrFilepathMissing)
    ELSE IF confFile \notin ExistingFiles THEN errFileMissing
    ELSE IF confFile \notin ExtractableFiles
    THEN Errorf("extracting information from custom configuration file", errExtract)
    ELSE NilErr

validateOpenVPNClientCertificate(provider, clientCert) ==
    IF provider \in {Airvpn, Cyberghost, VPNSecure, VPNUnlimited} /\ clientCert = <<>>
    THEN Errorf("", ErrMissingValue)
    ELSE IF clientCert = <<>> THEN NilErr
    ELSE base64Decode(clientCert)

validateOpenVPNClientKey(provider, clientKey) ==
    IF provider \in {Airvpn, Cyberghost, VPNUnlimited, Wevpn} /\ clientKey = <<>>
    THEN Errorf("", ErrMissingValue)
    ELSE IF clientKey = <<>> THEN NilErr
    ELSE base64Decode(clientKey)

validateOpenVPNEncryptedKey(provider, encryptedPrivateKey) ==
    IF provider = VPNSecure /\ encryptedPrivateKey = <<>>
    THEN Errorf("", ErrMissingValue)
    ELSE IF encryptedPrivateKey = <<>> THEN NilErr
    ELSE base64Decode(encryptedPrivateKey)

maxMSSFix == 10000

\* the outcome of a call: it returned err, or it panicked on a nil pointer
Returned(err) == [panic |-> FALSE, err |-> err]
Panicked == [panic |-> TRUE, err |-> NilErr]

\* lines 137-153: the checks from MSSFix on
validateTail(s, maxVerbosity) ==
    IF s.MSSFix = <<>> THEN Panicked
    ELSE IF s.MSSFix[1] > maxMSSFix
    THEN Returned(Errorf("is over the maximum value", ErrOpenVPNMSSFixIsTooHigh))
    ELSE IF ~regexpInterfaceName(s.Interface)
    THEN Returned(Errorf("does not match regex", ErrOpenVPNInterfaceNotValid))
    ELSE IF s.Verbosity = <<>> THEN Panicked
    ELSE IF s.Verbosity[1] < 0 \/ s.Verbosity[1] > maxVerbosity
    THEN Returned(Errorf("can only be between 0 and 5", ErrOpenVPNVerbosityIsOutOfBounds))
    ELSE Returned(NilErr)

\* mutant: the bound of the error message, 5, is the one tested
validateFromMSSFix_Max5(s) == validateTail(s, 5)

validateFromMSSFix(s) == validateTail(s, 6)

\* mutant: the passphrase check is skipped
validateFromPassphrase_Skipped(s) == validateFromMSSFix(s)

\* lines 133-135, then the rest
validateFromPassphrase(s) ==
    IF s.EncryptedKey[1] # <<>> /\ s.KeyPassphrase = <<>> THEN Panicked
    ELSE IF s.EncryptedKey[1] # <<>> /\ s.KeyPassphrase[1] = ""
    THEN Returned(Errorf("", ErrOpenVPNKeyPassphraseIsEmpty))
    ELSE validateFromMSSFix(s)

\* lines 113-131: the configuration file, certificate and key checks
validateFromConfFile(s, provider) ==
    IF s.ConfFile = <<>> THEN Panicked
    ELSE LET e1 == validateOpenVPNConfigFilepath(provider = Custom, s.ConfFile[1]) IN
    IF e1 # NilErr THEN Returned(Errorf("custom configuration file", e1))
    ELSE IF s.Cert = <<>> THEN Panicked
    ELSE LET e2 == validateOpenVPNClientCertificate(provider, s.Cert[1]) IN
    IF e2 # NilErr THEN Returned(Errorf("client certificate", e2))
    ELSE IF s.Key = <<>> THEN Panicked
    ELSE LET e3 == validateOpenVPNClientKey(provider, s.Key[1]) IN
    IF e3 # NilErr THEN Returned(Errorf("client key", e3))
    ELSE IF s.EncryptedKey = <<>> THEN Panicked
    ELSE LET e4 == validateOpenVPNEncryptedKey(provider, s.EncryptedKey[1]) IN
    IF e4 # NilErr THEN Returned(Errorf("encrypted key", e4))
    ELSE validateFromPassphrase(s)

\* OpenVPN.validate
validate(s, provider) ==
    IF s.Version \notin {Openvpn24, Openvpn25}
    THEN Returned(Errorf("can only be one of", ErrOpenVPNVersionIsNotValid))
    ELSE LET isCustom == provider = Custom
             isUserRequired == ~isCustom /\ provider # Airvpn /\ provider # VPNSecure
         IN
    IF isUserRequired /\ s.User = <<>> THEN Panicked
    ELSE IF isUserRequired /\ s.User[1] = <<>>
    THEN Returned(Errorf("", ErrOpenVPNUserIsEmpty))
    ELSE LET passwordRequired ==
                 isUserRequired /\ (provider # Ivpn \/ ~ivpnAccountID(s.User[1]))
         IN
    IF passwordRequired /\ s.Password = <<>> THEN Panicked
    ELSE IF passwordRequired /\ s.Password[1] = ""
    THEN Returned(Errorf("", ErrOpenVPNPasswordIsEmpty))
    ELSE validateFromConfFile(s, provider)

(***************************************************************************)
(* SpecSettings: the settings are read from sources that each set one      *)
(* field and are merged in, then defaulted, then validated.                *)
(***************************************************************************)
IvpnID == <<"i", "-", "a", "b", "1", "2", "-", "C", "d", "3", "4", "-", "e", "f", "5", "6">>

FieldValues ==
    [Version |-> {"2.4", "2.6"},
     User |-> {<<<<"u">>>>, <<IvpnID>>},
     Password |-> {<<"p">>},
     ConfFile |-> {<<"/ok.ovpn">>, <<"/bad.ovpn">>, <<"/none.ovpn">>},
     Auth |-> {<<"sha256">>},
     Cert |-> {<<<<"Q", "U", "J", "D">>>>, <<<<"Q", "!">>>>},
     Key |-> {<<<<"Q", "U", "I", "=">>>>, <<<<"Q", "U", "I">>>>},
     EncryptedKey |-> {<<<<"Q", "Q", "=", "=">>>>, <<<<"Q", "=", "Q", "=">>>>},
     KeyPassphrase |-> {<<"secret">>, <<"">>},
     PIAEncPreset |-> {<<"normal">>},
     MSSFix |-> {<<10000>>, <<10001>>},
     Interface |-> {<<"t", "u", "n", "1">>, <<"t", " ", "n">>},
     ProcessUser |-> {"nonroot"},
     Verbosity |-> {<<(-1)>>, <<0>>, <<6>>, <<7>>}]

Fields == DOMAIN ZeroOpenVPN

NumSet(s) == Cardinality({f \in Fields : ~IsUnset(s, f)})

InitSettings ==
    /\ vpnProvider \in Providers
    /\ o = ZeroOpenVPN
    /\ phase = "reading"
    /\ verr = <<>>
    /\ IdleRouting
    /\ IdleAddr

MergeWith(other) ==
    /\ phase = "reading"
    /\ NumSet(o) < MaxMerged
    /\ o' = mergeWith(o, other)
    /\ UNCHANGED <<vpnProvider, phase, verr, addrVars, routingVars>>

SetDefaults ==
    /\ phase \in {"reading", "defaulted"}
    /\ o' = setDefaults(o, vpnProvider)
    /\ phase' = "defaulted"
    /\ UNCHANGED <<vpnProvider, verr, addrVars, routingVars>>

Validate ==
    /\ phase \in {"reading", "defaulted"}
    /\ verr' = <<validate(o, vpnProvider)>>
    /\ phase' = "validated"
    /\ UNCHANGED <<vpnProvider, o, addrVars, routingVars>>

NextSettings ==
    \/ \E f \in Fields : \E v \in FieldValues[f] :
           MergeWith([ZeroOpenVPN EXCEPT ![f] = v])
    \/ SetDefaults
    \/ Validate

SpecSettings == InitSettings /\ [][NextSettings]_vars

(***************************************************************************)
(* C1 and C2: the address predicates.                                      *)
(***************************************************************************)
\* the leading 24 bits of the IPv4 address a.b.c.d as a number (every range
\* below is a union of /24 networks)
Net24(b4) == (b4[1] * 256 + b4[2]) * 256 + b4[3]

Between(x, lo, hi) == lo <= x /\ x <= hi

\* RFC 1918, RFC 1122 loopback, RFC 3927 link-local, RFC 5771 local network
\* control block, stated as numeric ranges
ExcludedV4(b4) ==
    LET x == Net24(b4) IN
    \/ Between(x, Net24(<<10, 0, 0>>), Net24(<<10, 255, 255>>))
    \/ Between(x, Net24(<<172, 16, 0>>), Net24(<<172, 31, 255>>))
    \/ Between(x, Net24(<<192, 168, 0>>), Net24(<<192, 168, 255>>))
    \/ Between(x, Net24(<<127, 0, 0>>), Net24(<<127, 255, 255>>))
    \/ Between(x, Net24(<<169, 254, 0>>), Net24(<<169, 254, 255>>))
    \/ x = Net24(<<224, 0, 0>>)

\* RFC 4193 fc00::/7, ::1, fe80::/10, and multicast ff00::/8 of link-local scope
ExcludedV6(b16) ==
    LET w == b16[1] * 256 + b16[2] IN
    \/ Between(w, 64512, 65023)
    \/ b16 = Zeros(15) \o <<1>>
    \/ Between(w, 65152, 65215)
    \/ (w >= 65280 /\ w % 16 = 2)

IsMappedBytes(b16) == SubSeq(b16, 1, 12) = Zeros(10) \o <<255, 255>>

\* an address in mapped form denotes the IPv4 address it embeds
ExcludedFromTunnel(a) ==
    CASE a.z = "z0" -> FALSE
      [] a.z = "z4" -> ExcludedV4(SubSeq(a.b, 13, 16))
      [] a.z = "z6" -> IF IsMappedBytes(a.b) THEN ExcludedV4(SubSeq(a.b, 13, 16))
                       ELSE ExcludedV6(a.b)

\* C1: IPIsPrivate(a) returns a boolean for every address, the zero address
\* included, and it is true exactly for the private-use, loopback, link-local
\* unicast and link-local multicast addresses; public unicast yields false.
C1_ExcludedIff ==
    privOut # <<>> =>
        /\ privOut[1] \in BOOLEAN
        /\ privOut[1] = ExcludedFromTunnel(addrIn)

C1_Witness ==
    /\ privOut = <<TRUE>>
    /\ addrIn.z = "z6"
    /\ v6u16(addrIn, 0) = 65282

GenuineV6(a) == a.z = "z6" /\ ~IsMappedBytes(a.b)

BareOrMappedV4(a) == a.z = "z4" \/ (a.z = "z6" /\ IsMappedBytes(a.b))

\* C2: ipMatchesFamily(a, f) is true iff (f = V6 and a is a genuine IPv6
\* address, neither IPv4 nor IPv4-mapped) or (f = V4 and a is a bare or
\* mapped IPv4 address); any other family matches nothing.
C2_MatchesFamilyIff ==
    matchOut # <<>> =>
        matchOut[1] = ( \/ (familyIn = FAMILY_V6 /\ GenuineV6(addrIn))
                        \/ (familyIn = FAMILY_V4 /\ BareOrMappedV4(addrIn)) )

(***************************************************************************)
(* C3 to C6 and C10: assignedIP.                                           *)
(***************************************************************************)
Called == ret # <<>>

InterfaceExists == Called /\ ret[1].name \in DOMAIN host

Enumerated == InterfaceExists /\ ~host[ret[1].name].addrsFail

\* the interface's address list, as the host holds it
HostAddrs == host[ret[1].name].addrs

SupportedKind(a) == a.kind = "IPAddr" \/ a.kind = "IPNet"

\* the net.IP holds an IPv4 address, in 4-byte or in 16-byte mapped form
HoldsV4(b) == Len(b) = 4 \/ (Len(b) = 16 /\ IsMappedBytes(b))

\* the four bytes of the IPv4 address a net.IP holds
V4BytesOf(b) == IF Len(b) = 4 THEN b ELSE SubSeq(b, 13, 16)

InMappedForm(ip) == ip.z = "z6" /\ IsMappedBytes(ip.b)

\* C3: when assignedIP returns a nil error the address is never in
\* IPv4-mapped-in-IPv6 form, and when the address selected on the interface
\* is an IPv4 address, in bare or in mapped form, the result is bit-identical
\* to the bare IPv4 address.
C3_NeverMapped ==
    (Called /\ ret[1].err = NilErr) =>
        /\ ~InMappedForm(ret[1].ip)
        /\ LET selected == HostAddrs[ret[1].examined].ip IN
           HoldsV4(selected) =>
               ret[1].ip = [z |-> "z4", b |-> Mapped16(V4BytesOf(selected))]

C3_Witness ==
    /\ Called
    /\ ret[1].err = NilErr
    /\ ret[1].family = FAMILY_V4
    /\ Len(HostAddrs[ret[1].examined].ip) = 16
    /\ ret[1].ip.z = "z4"

\* C4: for a name that is no interface of the host, assignedIP returns the
\* interface-not-found error wrapping the lookup error, never the listing
\* error nor errInterfaceIPNotFound, after one lookup and no address
\* enumeration, with the zero address beside the non-nil error.
C4_InterfaceNotFound ==
    (Called /\ ret[1].name \notin DOMAIN host) =>
        /\ ret[1].err # NilErr
        /\ Head(ret[1].err) = "network interface not found"
        /\ ErrorsIs(ret[1].err, errNoSuchInterface)
        /\ ~ErrorsIs(ret[1].err, errInterfaceIPNotFound)
        /\ ~ErrorsIs(ret[1].err, errAddrsFailed)
        /\ ret[1].lookups = 1
        /\ ret[1].listings = 0
        /\ ret[1].examined = 0
        /\ ret[1].ip = ZeroAddr

C4_Witness ==
    /\ Called
    /\ ret[1].name = "tun1"
    /\ ret[1].family = FAMILY_V4
    /\ ret[1].err # NilErr

\* the enumerated address at index i is of a supported kind and matches the
\* requested family
MatchAt(i) ==
    /\ SupportedKind(HostAddrs[i])
    /\ ipMatchesFamily(netIPToNetipAddress(HostAddrs[i].ip), ret[1].family)

NoMatch == \A i \in 1..Len(HostAddrs) : ~MatchAt(i)

FirstMatch == CHOOSE i \in 1..Len(HostAddrs) :
                  MatchAt(i) /\ \A j \in 1..(i - 1) : ~MatchAt(j)

\* the host with the interface's address list cut after its first n addresses
HostCut(n) ==
    [host EXCEPT ![ret[1].name].addrs = SubSeq(HostAddrs, 1, n)]

C10_ResultInFamily ==
    (Called /\ ret[1].err = NilErr) =>
        \/ (ret[1].family = FAMILY_V4 /\ ret[1].ip.z = "z4")
        \/ (ret[1].family = FAMILY_V6 /\ GenuineV6(ret[1].ip))

(***************************************************************************)
(* C7 to C9: the OpenVPN settings.                                         *)
(***************************************************************************)
Validated == phase = "validated"

\* every field but Verbosity passes validation
OthersPass ==
    /\ o.Verbosity # <<>>
    /\ validate([o EXCEPT !.Verbosity = <<1>>], vpnProvider) = Returned(NilErr)

\* C7: the verbosity is valid from 0 to 6 inclusive: when every other field
\* passes, validate returns nil for 0 <= v <= 6, 6 included, and an error
\* wrapping ErrOpenVPNVerbosityIsOutOfBounds for v < 0 or v > 6.
C7_VerbosityRange ==
    (Validated /\ OthersPass) =>
        LET v == o.Verbosity[1] IN
        /\ (0 <= v /\ v <= 6) => verr[1] = Returned(NilErr)
        /\ (v < 0 \/ v > 6) =>
               /\ ~verr[1].panic
               /\ ErrorsIs(verr[1].err, ErrOpenVPNVerbosityIsOutOfBounds)

C7_Witness ==
    /\ Validated
    /\ OthersPass
    /\ o.Verbosity = <<6>>
    /\ verr = <<Returned(NilErr)>>

EncryptedKeyWithoutPassphrase ==
    /\ o.EncryptedKey # <<>>
    /\ o.EncryptedKey[1] # <<>>
    /\ o.KeyPassphrase = <<"">>

\* the checks of validate that come before the passphrase check pass
PrecedingPass ==
    validate([o EXCEPT !.KeyPassphrase = <<"x">>, !.MSSFix = <<0>>,
                       !.Interface = <<"t", "u", "n", "0">>, !.Verbosity = <<1>>],
             vpnProvider) = Returned(NilErr)

\* C8: validate never returns nil when EncryptedKey is a non-empty string and
\* KeyPassphrase is the empty string, and when the checks before it pass the
\* error is ErrOpenVPNKeyPassphraseIsEmpty.
C8_PassphraseRequired ==
    (Validated /\ EncryptedKeyWithoutPassphrase) =>
        /\ verr[1] # Returned(NilErr)
        /\ PrecedingPass =>
               /\ ~verr[1].panic
               /\ ErrorsIs(verr[1].err, ErrOpenVPNKeyPassphraseIsEmpty)

C8_Witness ==
    /\ Validated
    /\ EncryptedKeyWithoutPassphrase
    /\ PrecedingPass
    /\ ErrorsIs(verr[1].err, ErrOpenVPNKeyPassphraseIsEmpty)

\* the defaults the field documentation gives
DocumentedDefault(f, provider) ==
    CASE f = "Version" -> "2.5"
      [] f = "Interface" -> <<"t", "u", "n", "0">>
      [] f = "ProcessUser" -> "root"
      [] f = "Verbosity" -> <<1>>
      [] f = "MSSFix" -> <<0>>
      [] f = "Password" -> IF provider = "mullvad" THEN <<"m">> ELSE <<"">>

DocumentedFields == {"Version", "Interface", "ProcessUser", "Verbosity", "MSSFix", "Password"}

\* C9: after setDefaults no pointer field is nil and neither Interface nor
\* ProcessUser is empty; every field set before the call keeps its value, the
\* unset ones take the documented defaults, and a second call with the same
\* provider changes nothing (setDefaults maps the result to itself).
C9_SetDefaults ==
    [][phase' = "defaulted" =>
        /\ \A f \in PointerFields : o'[f] # <<>>
        /\ o'.Interface # <<>>
        /\ o'.ProcessUser # ""
        /\ \A f \in Fields : ~IsUnset(o, f) => o'[f] = o[f]
        /\ \A f \in DocumentedFields :
               IsUnset(o, f) => o'[f] = DocumentedDefault(f, vpnProvider)
        /\ setDefaults(o', vpnProvider) = o'
      ]_vars

C9_Witness ==
    /\ phase = "defaulted"
    /\ vpnProvider = "mullvad"
    /\ o.Password = <<"m">>
    /\ o.Verbosity = <<6>>
    /\ o.Version = "2.5"

====
